---- MODULE Spec2Model ----
(***************************************************************************)
(* Model of the Flux Kustomization mutating admission webhook (main.go).   *)
(*                                                                         *)
(* Strings are sequences of symbols.  A symbol is either one of the        *)
(* characters that matter to JSON-Pointer escaping ("~", "/", "0", "1",    *)
(* ".") or an opaque run of ordinary characters ("spec", "postBuild", ...).*)
(* JSON values are tagged records: an object is [t |-> "object", m |-> f]  *)
(* with f a function from member names to JSON values, a string is         *)
(* [t |-> "string", s |-> <<symbols>>].                                    *)
(***************************************************************************)
EXTENDS Integers, Sequences, FiniteSets, TLC

VARIABLES
    pc,         \* position of main / of the test harness
    appConfig,  \* the package-level substitution map (main.go:41)
    request,    \* the HTTP request body being handled by handleMutate
    response,   \* what handleMutate wrote for `request`
    reinvoked,  \* TRUE when `request` carries the object patched by the
                \* previous response (the API server re-submitting it)
    startup,    \* the errors main got from readConfigMap and NewCertWatcher
    disk,       \* the certificate pair the files on disk hold
    cw,         \* the CertWatcher: cert, mu, done, and the watcher's Events
    watch,      \* the goroutine running cw.Watch: position, event, loaded pair
    hs,         \* a TLS handshake calling cw.GetCertificate: position, result
    lastGood,   \* the pair stored by the most recent successful load
    limiter,    \* the rate limiter: configured limit, tokens, and the number
                \* of requests let through since the last refill
    conn,       \* an HTTP exchange on its way through the middleware
    workers,    \* goroutines handling /mutate requests concurrently
    esc         \* an evaluation of escapeJsonPointer: key and result

mutateVars == <<request, response, reinvoked>>
certVars == <<disk, cw, watch, hs, lastGood>>
serverVars == <<limiter, conn>>

vars == <<pc, appConfig, request, response, reinvoked, startup, disk, cw,
          watch, hs, lastGood, limiter, conn, workers, esc>>

----------------------------------------------------------------------------
(* Bounds *)

\* largest number of entries of the substitution map
MaxKeys == 2

\* the largest RATE_LIMIT the environment sets
MaxRateLimit == 2

\* longest key escapeJsonPointer is evaluated on by itself
MaxEscLen == 3

\* most file system events waiting to be received by the watch loop
MaxEvents == 2

\* characters substitution keys are made of
KeyChars == {"~", "/", "1"}

\* substitution keys: every one-symbol string over KeyChars, and the
\* two-symbol strings that start with "~" (the ones an escape can be
\* mistaken for)
Keys == {<<a>> : a \in KeyChars} \cup {<<"~", a>> : a \in KeyChars}

\* substitution values (file contents)
Values == {<<"v">>, <<"w">>}

UIDs == {"uid-1", "uid-2"}

Kinds == {"Kustomization", "ConfigMap"}

Operations == {"CREATE", "UPDATE", "DELETE"}

----------------------------------------------------------------------------
(* JSON documents *)

Str(s) == [t |-> "string", s |-> s]

Obj(f) == [t |-> "object", m |-> f]

EmptyObj == Obj(<<>>)

\* bytes that are not a JSON document (also the empty RawExtension that a
\* JSON null leaves behind)
InvalidRaw == [t |-> "invalid"]

IsObj(v) == v.t = "object"

\* f with member k set to v (added or replaced)
Put(f, k, v) == [x \in (DOMAIN f) \cup {k} |-> IF x = k THEN v ELSE f[x]]

One(k, v) == [x \in {k} |-> v]

SPEC == <<"spec">>
POSTBUILD == <<"postBuild">>
SUBSTITUTE == <<"substitute">>
METADATA == <<"metadata">>
DELETIONTIMESTAMP == <<"deletionTimestamp">>
KIND == <<"kind">>

----------------------------------------------------------------------------
(* HTTP status codes used by the handlers *)

StatusOK == 200
StatusBadRequest == 400
StatusInternalServerError == 500
StatusServiceUnavailable == 503
StatusTooManyRequests == 429

----------------------------------------------------------------------------
(* strings.ReplaceAll for a one-symbol pattern *)

RECURSIVE ReplaceAll(_, _, _)
ReplaceAll(s, old, new) ==
    IF s = <<>> THEN <<>>
    ELSE (IF Head(s) = old THEN new ELSE <<Head(s)>>) \o ReplaceAll(Tail(s), old, new)

\* a plausible slip: the "~" replacement is left out
escapeJsonPointer_NoTilde(value) == ReplaceAll(value, "/", <<"~", "1">>)

\* a plausible slip: the "/" replacement is left out
escapeJsonPointer_NoSlash(value) == ReplaceAll(value, "~", <<"~", "0">>)

\* escapeJsonPointer (main.go:282): "~" -> "~0" first, then "/" -> "~1"
escapeJsonPointer_SlashFirst(value) ==
    LET v1 == ReplaceAll(value, "/", <<"~", "1">>)
    IN  ReplaceAll(v1, "~", <<"~", "0">>)

escapeJsonPointer(value) ==
    LET v1 == ReplaceAll(value, "~", <<"~", "0">>)
    IN  ReplaceAll(v1, "/", <<"~", "1">>)

----------------------------------------------------------------------------
(* unstructured helpers used by handleMutate *)

\* unstructured.NestedFieldNoCopy: walk obj along fields; found only if every
\* step is a member of a map
RECURSIVE NestedFieldNoCopy(_, _)
NestedFieldNoCopy(val, fields) ==
    IF fields = <<>> THEN [found |-> TRUE, val |-> val]
    ELSE IF IsObj(val) /\ Head(fields) \in DOMAIN val.m
         THEN NestedFieldNoCopy(val.m[Head(fields)], Tail(fields))
         ELSE [found |-> FALSE, val |-> val]

\* unstructured.NestedMap: found is TRUE only when the value at the path
\* exists and is a map (a value of another type gives found = FALSE and an
\* error, which handleMutate drops)
NestedMapFound(obj, fields) ==
    LET r == NestedFieldNoCopy(obj, fields)
    IN  r.found /\ IsObj(r.val)

\* unstructured.NestedString: the string at the path, "" if absent or not a string
NestedString(obj, fields) ==
    LET r == NestedFieldNoCopy(obj, fields)
    IN  IF r.found /\ r.val.t = "string" THEN r.val.s ELSE <<>>

\* timestamps an object may carry in metadata.deletionTimestamp
TS_NONZERO == <<"2024-01-01T00:00:00Z">>
TS_ZERO == <<"0001-01-01T00:00:00Z">>

\* obj.GetDeletionTimestamp().IsZero(): the timestamp is read with
\* NestedString and parsed as RFC 3339; an absent, empty or unparsable
\* string leaves the zero time
DeletionTimestampIsZero(obj) ==
    NestedString(obj, <<METADATA, DELETIONTIMESTAMP>>) # TS_NONZERO

\* json.Unmarshal(raw, &obj) into unstructured.Unstructured (main.go:206):
\* fails unless the bytes are a JSON object
Unmarshal(raw) ==
    IF IsObj(raw) THEN [err |-> FALSE, obj |-> raw]
    ELSE [err |-> TRUE, obj |-> EmptyObj]

----------------------------------------------------------------------------
(* handleMutate (main.go:176) *)

NoPatchType == "none"
JSONPatch == "JSONPatch"

\* an HTTP error written with http.Error: no AdmissionReview in the body
HttpError(code) ==
    [status |-> code, review |-> FALSE, uid |-> "", allowed |-> FALSE,
     patch |-> <<>>, patchType |-> NoPatchType]

\* jsoniter Decode of the body into v1.AdmissionReview (main.go:179): an
\* error for bytes that are not a JSON AdmissionReview, otherwise the struct,
\* whose Request pointer is nil when the document has no "request"
Decode(body) ==
    [err |-> body.form = "malformed",
     requestNil |-> IF body.form = "review" THEN ~body.hasRequest ELSE TRUE]

\* a plausible slip: the UID is not copied into the response
DefaultResponse_NoUID(req) ==
    [status |-> StatusOK, review |-> TRUE, uid |-> "", allowed |-> TRUE,
     patch |-> <<>>, patchType |-> NoPatchType]

\* a plausible slip: Allowed is left at its zero value
DefaultResponse_NotAllowed(req) ==
    [status |-> StatusOK, review |-> TRUE, uid |-> req.uid, allowed |-> FALSE,
     patch |-> <<>>, patchType |-> NoPatchType]

\* the default response that allows the request (main.go:185-195)
DefaultResponse(req) ==
    [status |-> StatusOK, review |-> TRUE, uid |-> req.uid, allowed |-> TRUE,
     patch |-> <<>>, patchType |-> NoPatchType]

\* a plausible slip: every kind is mutated
IsTargetKind_Any(kind) == TRUE

\* main.go:199
IsTargetKind(kind) == kind = "Kustomization"

\* main.go:213
IsDeletion(req, obj) ==
    req.operation = "DELETE" \/ ~DeletionTimestampIsZero(obj)

Slash == <<"/">>
PathPostBuild == Slash \o SPEC \o Slash \o POSTBUILD
PathSubstitute == PathPostBuild \o Slash \o SUBSTITUTE

AddOp(path, value) == [op |-> "add", path |-> path, value |-> value]

\* a plausible slip: the substitute container is added before its parent
ContainerOps_Swapped(obj) ==
    (IF ~NestedMapFound(obj, <<SPEC, POSTBUILD, SUBSTITUTE>>)
        THEN <<AddOp(PathSubstitute, EmptyObj)>> ELSE <<>>)
    \o
    (IF ~NestedMapFound(obj, <<SPEC, POSTBUILD>>)
        THEN <<AddOp(PathPostBuild, EmptyObj)>> ELSE <<>>)

\* a plausible slip: the substitute container is only added together with
\* its parent
ContainerOps_Nested(obj) ==
    IF ~NestedMapFound(obj, <<SPEC, POSTBUILD>>)
    THEN <<AddOp(PathPostBuild, EmptyObj), AddOp(PathSubstitute, EmptyObj)>>
    ELSE <<>>

\* a plausible slip: the substitute container is added without looking
ContainerOps_Always(obj) ==
    (IF ~NestedMapFound(obj, <<SPEC, POSTBUILD>>)
        THEN <<AddOp(PathPostBuild, EmptyObj)>> ELSE <<>>)
    \o <<AddOp(PathSubstitute, EmptyObj)>>

\* the two container operations (main.go:229-245); both lookups read the
\* object as it was sent
ContainerOps(obj) ==
    (IF ~NestedMapFound(obj, <<SPEC, POSTBUILD>>)
        THEN <<AddOp(PathPostBuild, EmptyObj)>> ELSE <<>>)
    \o
    (IF ~NestedMapFound(obj, <<SPEC, POSTBUILD, SUBSTITUTE>>)
        THEN <<AddOp(PathSubstitute, EmptyObj)>> ELSE <<>>)

\* the path of the operation for one key (main.go:249-252)
KeyPath(key) == PathSubstitute \o Slash \o escapeJsonPointer(key)

\* a plausible slip: the loop stops after the entry it visits first
KeyOps_FirstOnly(config, order) ==
    [i \in (DOMAIN order) \cap {1} |-> AddOp(KeyPath(order[i]), Str(config[order[i]]))]

\* one operation per entry of the map, in the order the range statement
\* happens to visit the keys (main.go:247-255)
KeyOps(config, order) ==
    [i \in DOMAIN order |-> AddOp(KeyPath(order[i]), Str(config[order[i]]))]

\* a plausible slip: the patch type is set on every response
WithPatch_AlwaysTyped(resp, patch) ==
    [resp EXCEPT !.patch = patch, !.patchType = JSONPatch]

\* main.go:257-267: patch and patchType are set together, and only for a
\* patch that has operations
WithPatch(resp, patch) ==
    IF Len(patch) > 0
    THEN [resp EXCEPT !.patch = patch, !.patchType = JSONPatch]
    ELSE resp

\* the orders in which a range over a map with key set S may visit it
Orders(S) ==
    {o \in [1..Cardinality(S) -> S] : \A i, j \in DOMAIN o : o[i] = o[j] => i = j}

\* a plausible slip: the object is never checked
ObjectError_Never(req) == FALSE

\* main.go:206
ObjectError(req) == Unmarshal(req.object).err

\* handleMutate as routed by main (behind middleware.Recoverer, main.go:356):
\* body is the request body, config the substitution map, order the order
\* in which the map is ranged over
handleMutate(body, config, order) ==
    IF Decode(body).err
    THEN HttpError(StatusBadRequest)                     \* main.go:179-183
    ELSE IF Decode(body).requestNil
    THEN HttpError(StatusInternalServerError)            \* main.go:192 panics on the nil Request
    ELSE IF ~IsTargetKind(body.kind)
    THEN DefaultResponse(body)                           \* main.go:199-203
    ELSE IF ObjectError(body)
    THEN HttpError(StatusBadRequest)                     \* main.go:206-210
    ELSE LET obj == Unmarshal(body.object).obj IN
         IF IsDeletion(body, obj)
         THEN DefaultResponse(body)                      \* main.go:213-216
         ELSE WithPatch(DefaultResponse(body),
                        ContainerOps(obj) \o KeyOps(config, order))

----------------------------------------------------------------------------
(* What the API server does with the patch: RFC 6901 pointers, RFC 6902 add *)

\* the reference tokens of a string that follows a "/": split at every "/"
RECURSIVE SplitTokens(_)
SplitTokens(s) ==
    IF s = <<>> THEN << <<>> >>
    ELSE LET rest == SplitTokens(Tail(s))
         IN  IF Head(s) = "/" THEN << <<>> >> \o rest
             ELSE << <<Head(s)>> \o Head(rest) >> \o Tail(rest)

\* replace every occurrence of the two symbols "~" c by new, left to right
RECURSIVE ReplaceEscape(_, _, _)
ReplaceEscape(s, c, new) ==
    IF s = <<>> THEN <<>>
    ELSE IF Len(s) >= 2 /\ s[1] = "~" /\ s[2] = c
         THEN <<new>> \o ReplaceEscape(SubSeq(s, 3, Len(s)), c, new)
         ELSE <<Head(s)>> \o ReplaceEscape(Tail(s), c, new)

\* RFC 6901 section 4: "~1" becomes "/" first, then "~0" becomes "~"
Unescape(token) == ReplaceEscape(ReplaceEscape(token, "1", "/"), "0", "~")

\* the member names a JSON Pointer walks through
PointerTokens(path) ==
    IF path = <<>> THEN <<>>
    ELSE LET raw == SplitTokens(Tail(path))
         IN  [i \in DOMAIN raw |-> Unescape(raw[i])]

\* RFC 6902 add: the parent of the target must exist and be an object; the
\* member is added, or replaced when it is already there
RECURSIVE AddAt(_, _, _)
AddAt(doc, tokens, value) ==
    IF tokens = <<>> THEN [ok |-> TRUE, doc |-> value]
    ELSE IF ~IsObj(doc) THEN [ok |-> FALSE, doc |-> doc]
    ELSE IF Len(tokens) = 1 THEN [ok |-> TRUE, doc |-> Obj(Put(doc.m, tokens[1], value))]
    ELSE IF tokens[1] \notin DOMAIN doc.m THEN [ok |-> FALSE, doc |-> doc]
    ELSE LET r == AddAt(doc.m[tokens[1]], Tail(tokens), value)
         IN  [ok |-> r.ok,
              doc |-> IF r.ok THEN Obj(Put(doc.m, tokens[1], r.doc)) ELSE doc]

\* the operations of a patch applied in order; the first failure stops it
RECURSIVE ApplyPatch(_, _)
ApplyPatch(doc, patch) ==
    IF patch = <<>> THEN [ok |-> TRUE, doc |-> doc]
    ELSE LET r == AddAt(doc, PointerTokens(Head(patch).path), Head(patch).value)
         IN  IF r.ok THEN ApplyPatch(r.doc, Tail(patch)) ELSE [ok |-> FALSE, doc |-> doc]

----------------------------------------------------------------------------
(* readConfigMap (main.go:149) and what main does with its result *)

\* a directory: unreadable, or a map from entry names to entries
\* [isDir, readErr, content]; names starting with "." are the hidden
\* entries a ConfigMap mount carries
HiddenName == <<".", ".", "data">>

FileNames == {k \in Keys : \A i \in DOMAIN k : k[i] # "/"} \cup {HiddenName}

FileEntries == [isDir : BOOLEAN, readErr : BOOLEAN, content : Values]

SmallSubsets(S) == {T \in SUBSET S : Cardinality(T) <= MaxKeys}

Directories ==
    {[readable |-> FALSE, files |-> <<>>]} \cup
    {[readable |-> TRUE, files |-> f] :
        f \in UNION {[T -> FileEntries] : T \in SmallSubsets(FileNames)}}

\* the entries readConfigMap does not skip (main.go:157)
VisibleFiles(dir) ==
    {n \in DOMAIN dir.files : ~dir.files[n].isDir /\ Head(n) # "."}

\* readConfigMap: err is "readdir" when the directory cannot be read,
\* "readfile" when one of its files cannot, "notfound" (errConfigNotFound)
\* when no file is left, and the map is nil whenever err is set
readConfigMap(dir) ==
    IF ~dir.readable
    THEN [err |-> "readdir", config |-> <<>>]
    ELSE IF \E n \in VisibleFiles(dir) : dir.files[n].readErr
    THEN [err |-> "readfile", config |-> <<>>]
    ELSE IF VisibleFiles(dir) = {}
    THEN [err |-> "notfound", config |-> <<>>]
    ELSE [err |-> "none", config |-> [n \in VisibleFiles(dir) |-> dir.files[n].content]]

\* the maps a test may assign to appConfig
ConfigMaps == UNION {[T -> Values] : T \in SmallSubsets(Keys)}

----------------------------------------------------------------------------
(* Requests *)

SpecVariants ==
    { [has |-> FALSE, val |-> EmptyObj],
      [has |-> TRUE, val |-> Str(<<"x">>)],
      [has |-> TRUE, val |-> EmptyObj],
      [has |-> TRUE, val |-> Obj(One(POSTBUILD, Str(<<"x">>)))],
      [has |-> TRUE, val |-> Obj(One(POSTBUILD, EmptyObj))],
      [has |-> TRUE, val |-> Obj(One(POSTBUILD, Obj(One(SUBSTITUTE, Str(<<"x">>)))))],
      [has |-> TRUE, val |-> Obj(One(POSTBUILD, Obj(One(SUBSTITUTE, EmptyObj))))],
      [has |-> TRUE, val |-> Obj(Put(One(<<"interval">>, Str(<<"5m">>)), POSTBUILD,
                                   Obj(One(SUBSTITUTE, Obj(One(<<"1">>, Str(<<"w">>)))))))] }

MetaVariants ==
    { [has |-> FALSE, val |-> EmptyObj],
      [has |-> TRUE, val |-> Obj(One(DELETIONTIMESTAMP, Str(TS_NONZERO)))],
      [has |-> TRUE, val |-> Obj(One(DELETIONTIMESTAMP, Str(TS_ZERO)))] }

MakeObject(kind, meta, spec) ==
    LET f0 == One(KIND, Str(<<kind>>))
        f1 == IF meta.has THEN Put(f0, METADATA, meta.val) ELSE f0
        f2 == IF spec.has THEN Put(f1, SPEC, spec.val) ELSE f1
    IN  Obj(f2)

NoMeta == [has |-> FALSE, val |-> EmptyObj]

\* the spec variants that are also sent with a deletion timestamp: an object
\* with both containers and one without a spec
StampedSpecVariants ==
    {sp \in SpecVariants : ~sp.has \/ NestedFieldNoCopy(sp.val, <<POSTBUILD, SUBSTITUTE, <<"1">>>>).found}

\* the embedded documents: bytes that do not parse, or an object
RawObjects(kind) ==
    {InvalidRaw}
    \cup {MakeObject(kind, NoMeta, sp) : sp \in SpecVariants}
    \cup {MakeObject(kind, m, sp) : m \in MetaVariants \ {NoMeta}, sp \in StampedSpecVariants}

Review(uid, kind, operation, object) ==
    [form |-> "review", hasRequest |-> TRUE, uid |-> uid, kind |-> kind,
     operation |-> operation, object |-> object]

\* the AdmissionReview bodies that carry a request
Reviews ==
    UNION {{Review(u, k, o, r) : u \in UIDs, o \in Operations, r \in RawObjects(k)} : k \in Kinds}

MalformedBody == [form |-> "malformed"]
NoRequestBody == [form |-> "review", hasRequest |-> FALSE]

Bodies == Reviews \cup {MalformedBody, NoRequestBody}

NoBody == [form |-> "none"]
\* nothing written yet
NoResponse ==
    [status |-> 0, review |-> FALSE, uid |-> "", allowed |-> FALSE,
     patch |-> <<>>, patchType |-> NoPatchType]

----------------------------------------------------------------------------
(* CertWatcher (main.go:45) *)

NoCert == "nil"
Certs == {"pair-1", "pair-2"}
BrokenPair == "broken"

\* what the certificate and key files can hold
DiskStates == Certs \cup {BrokenPair}

\* tls.LoadX509KeyPair on the files (main.go:73)
LoadX509KeyPair(d) == [err |-> d \notin Certs, cert |-> IF d \in Certs THEN d ELSE NoCert]

\* the operations an fsnotify event can carry, as sets of flags
EventFlags == {"Create", "Write", "Remove", "Rename", "Chmod"}
EventOps == {{"Create"}, {"Chmod"}, {"Remove"}, {"Remove", "Rename"}}

\* no CertWatcher yet
NoWatcher == [cert |-> NoCert, writer |-> FALSE, readers |-> 0, done |-> FALSE, events |-> <<>>]

WatchIdle == [pc |-> "idle", op |-> {}, loaded |-> NoCert]
HsIdle == [pc |-> "idle", result |-> NoCert]

----------------------------------------------------------------------------
(* The HTTP server (main.go:349-379) *)

Routes == {"/mutate", "/health", "/ready"}

NoConn == [route |-> "", stage |-> "none", status |-> 0, handler |-> ""]

NoStartup == [configErr |-> "unset", certErr |-> "unset", listenErr |-> FALSE, handled |-> FALSE]

NoEsc == [key |-> <<>>, out |-> <<>>, done |-> FALSE]

----------------------------------------------------------------------------
(* The state machine *)

\* the state main starts in, for RATE_LIMIT = rl and the files holding d
InitWith(rl, d) ==
    /\ pc = "start"
    /\ appConfig = <<>>
    /\ request = NoBody
    /\ response = NoResponse
    /\ reinvoked = FALSE
    /\ startup = NoStartup
    /\ disk = d
    /\ cw = NoWatcher
    /\ watch = WatchIdle
    /\ hs = HsIdle
    /\ lastGood = NoCert
    /\ limiter = [limit |-> rl, tokens |-> 0, admitted |-> 0]
    /\ conn = NoConn
    /\ workers = <<>>

Init ==
    /\ InitWith(MaxRateLimit, "pair-1")
    /\ esc = NoEsc

\* errors.Is(err, errConfigNotFound) decides whether main goes on
\* (main.go:324-330)
ConfigFatal_Never(err) == FALSE

ConfigFatal(err) == err \notin {"none", "notfound"}

\* main.go:323-330: the map is read once; only errConfigNotFound lets the
\* process go on, with a nil map
MainReadConfig ==
    /\ pc = "start"
    /\ \E dir \in Directories :
        LET r == readConfigMap(dir) IN
        /\ appConfig' = r.config
        /\ startup' = [startup EXCEPT !.configErr = r.err]
        /\ pc' = IF ConfigFatal(r.err) THEN "exited" ELSE "config"
    /\ UNCHANGED <<mutateVars, certVars, serverVars, workers, esc>>

\* main.go:338-341 with NewCertWatcher (main.go:54-70): the file watcher is
\* created and the pair is loaded; either failure is fatal
MainNewCertWatcher ==
    /\ pc = "config"
    /\ \E watcherOk \in BOOLEAN :
        LET r == LoadX509KeyPair(disk) IN
        IF ~watcherOk
        THEN /\ startup' = [startup EXCEPT !.certErr = "watcher"]
             /\ pc' = "exited"
             /\ UNCHANGED <<cw, lastGood>>
        ELSE IF r.err
        THEN /\ startup' = [startup EXCEPT !.certErr = "keypair"]
             /\ pc' = "exited"
             /\ UNCHANGED <<cw, lastGood>>
        ELSE /\ startup' = [startup EXCEPT !.certErr = "none"]
             /\ pc' = "certs"
             /\ cw' = [cw EXCEPT !.cert = r.cert]
             /\ lastGood' = r.cert
    /\ UNCHANGED <<appConfig, mutateVars, disk, watch, hs, serverVars, workers, esc>>

\* main.go:343-379: the watch goroutine starts, the limiter is created with
\* rate and burst both RATE_LIMIT, and the server listens; a listen error
\* is fatal
MainStartServer ==
    /\ pc = "certs"
    /\ \E listenOk \in BOOLEAN :
        /\ startup' = [startup EXCEPT !.listenErr = ~listenOk]
        /\ pc' = IF listenOk THEN "serving" ELSE "exited"
    /\ watch' = [watch EXCEPT !.pc = "starting"]
    /\ limiter' = [limiter EXCEPT !.tokens = limiter.limit]
    /\ UNCHANGED <<appConfig, mutateVars, disk, cw, hs, lastGood, conn, workers, esc>>

\* TestMutatingWebhook (README.md:202-206): the test assigns the map and
\* calls the handler directly
TestSetup ==
    /\ pc = "start"
    /\ \E cfg \in ConfigMaps : appConfig' = cfg
    /\ pc' = "test"
    /\ UNCHANGED <<mutateVars, startup, certVars, serverVars, workers, esc>>

\* a request body arrives at POST /mutate; the tests only send reviews that
\* carry a request
Receive ==
    /\ pc \in {"serving", "test"}
    /\ request = NoBody
    /\ \E body \in Bodies :
        /\ pc = "test" => body \in Reviews
        /\ request' = body
    /\ response' = NoResponse
    /\ reinvoked' = FALSE
    /\ UNCHANGED <<pc, appConfig, startup, certVars, serverVars, workers, esc>>

\* handleMutate runs on the body; the map is only read
HandleMutate ==
    /\ request # NoBody
    /\ response = NoResponse
    /\ \E order \in Orders(DOMAIN appConfig) :
        response' = handleMutate(request, appConfig, order)
    /\ UNCHANGED <<pc, appConfig, request, reinvoked, startup, certVars, serverVars, workers, esc>>

\* the API server applies the returned patch and the patched object comes
\* back in a new review (same request otherwise)
Reinvoke ==
    /\ response # NoResponse
    /\ response.status = StatusOK
    /\ ~reinvoked
    /\ IsTargetKind(request.kind)
    /\ LET r == ApplyPatch(request.object, response.patch) IN
        /\ r.ok
        /\ request' = [request EXCEPT !.object = r.doc]
    /\ response' = NoResponse
    /\ reinvoked' = TRUE
    /\ UNCHANGED <<pc, appConfig, startup, certVars, serverVars, workers, esc>>

\* the handler has returned and the exchange is over
Return ==
    /\ response # NoResponse
    /\ request' = NoBody
    /\ response' = NoResponse
    /\ reinvoked' = FALSE
    /\ UNCHANGED <<pc, appConfig, startup, certVars, serverVars, workers, esc>>

Next ==
    \/ MainReadConfig
    \/ MainNewCertWatcher
    \/ MainStartServer
    \/ TestSetup
    \/ Receive
    \/ HandleMutate
    \/ Reinvoke
    \/ Return

Spec == Init /\ [][Next]_vars

----------------------------------------------------------------------------
(* Vocabulary of the properties *)

Responded == response # NoResponse

\* the body decoded to a review that carries a request
HasRequest == request.form = "review" /\ request.hasRequest

\* a request of the target kind that is not a deletion and whose object
\* decodes and carries no deletion timestamp
Mutable ==
    /\ HasRequest
    /\ request.kind = "Kustomization"
    /\ request.operation # "DELETE"
    /\ IsObj(request.object)
    /\ NestedString(request.object, <<METADATA, DELETIONTIMESTAMP>>) # TS_NONZERO

\* an admission response that allows and carries neither patch nor patch type
AllowedUnpatched ==
    /\ response.status = StatusOK
    /\ response.review
    /\ response.allowed
    /\ response.patch = <<>>
    /\ response.patchType = NoPatchType

\* the member of spec.postBuild.substitute an operation addresses, read the
\* way the receiving side reads the pointer
IsKeyLevel(op) ==
    LET t == PointerTokens(op.path)
    IN  Len(t) > 3 /\ SubSeq(t, 1, 3) = <<SPEC, POSTBUILD, SUBSTITUTE>>

Addresses(op, key) == PointerTokens(op.path) = <<SPEC, POSTBUILD, SUBSTITUTE, key>>

HasMapAt(fields) ==
    LET r == NestedFieldNoCopy(request.object, fields)
    IN  r.found /\ r.val.t = "object"

----------------------------------------------------------------------------
(* Properties *)

\* C1: every admission response carries the UID of the request it answers,
\* on the non-target, the deletion and the patch path alike.
C1_UidPassThrough ==
    response.review => response.uid = request.uid

C1_Witness ==
    /\ response.review
    /\ response.patch # <<>>
    /\ request.uid = "uid-2"
    /\ response.uid = "uid-2"

\* C2: for a mutable request, every entry (key, value) of the substitution
\* map has exactly one operation addressing member `key` of
\* spec.postBuild.substitute, it is an add of the literal value, distinct
\* keys have distinct paths, and every key-level operation addresses a key
\* of the map.
C2_OneAddPerKey ==
    (Responded /\ Mutable) =>
        /\ response.review
        /\ \A k \in DOMAIN appConfig :
            /\ Cardinality({i \in DOMAIN response.patch :
                              Addresses(response.patch[i], k)}) = 1
            /\ \A i \in DOMAIN response.patch :
                Addresses(response.patch[i], k) =>
                    /\ response.patch[i].op = "add"
                    /\ response.patch[i].value = Str(appConfig[k])
        /\ \A i, j \in DOMAIN response.patch :
            (i # j) => response.patch[i].path # response.patch[j].path
        /\ \A i \in DOMAIN response.patch :
            IsKeyLevel(response.patch[i]) =>
                \E k \in DOMAIN appConfig : Addresses(response.patch[i], k)

C2_Witness ==
    /\ Responded /\ Mutable
    /\ DOMAIN appConfig = {<<"/">>, <<"~", "1">>}
    /\ appConfig[<<"/">>] # appConfig[<<"~", "1">>]
    /\ \E i \in DOMAIN response.patch :
        response.patch[i].path = PathSubstitute \o <<"/", "~", "0", "1">>

\* C3 as stated: handling the patched object again yields no patch at all.
C3_ReinvocationEmptyPatch ==
    (Responded /\ reinvoked /\ Mutable) =>
        response.patch = <<>> /\ response.patchType = NoPatchType

\* C3 as amended: handling the patched object again adds neither container;
\* the patch is exactly the key-level adds, one per entry of the map, so it
\* is empty (and untyped) exactly when the map is empty.
C3_ReinvocationNoContainerAdds ==
    (Responded /\ reinvoked /\ Mutable) =>
        /\ response.review /\ response.allowed
        /\ \A i \in DOMAIN response.patch :
            response.patch[i].path \notin {PathPostBuild, PathSubstitute}
        /\ Len(response.patch) = Cardinality(DOMAIN appConfig)
        /\ (response.patch = <<>>) <=> (DOMAIN appConfig = {})
        /\ (response.patchType = NoPatchType) <=> (DOMAIN appConfig = {})

C3_Witness ==
    /\ Responded /\ reinvoked /\ Mutable
    /\ Cardinality(DOMAIN appConfig) = 2
    /\ Len(response.patch) = 2

\* C4: a deletion of the target kind (operation Delete whatever the object,
\* or an object with a non-zero deletion timestamp) is allowed unpatched.
C4_DeletionAllowedUnpatched ==
    (/\ Responded
     /\ HasRequest
     /\ request.kind = "Kustomization"
     /\ \/ request.operation = "DELETE"
        \/ /\ IsObj(request.object)
           /\ NestedString(request.object, <<METADATA, DELETIONTIMESTAMP>>) = TS_NONZERO)
    => AllowedUnpatched

\* C5: a request of another kind is answered 200, allowed and unpatched,
\* whatever its operation, its object and the substitution map.
C5_NonTargetAllowedUnpatched ==
    (Responded /\ HasRequest /\ request.kind # "Kustomization") => AllowedUnpatched

C5_Witness ==
    /\ Responded /\ HasRequest
    /\ request.kind = "ConfigMap"
    /\ request.object = InvalidRaw
    /\ request.operation = "DELETE"
    /\ DOMAIN appConfig # {}
    /\ AllowedUnpatched

\* C6: a body that is not JSON, or a review without a request, is answered
\* 400 and no admission response is written.
C6_DecodeErrorsRejected ==
    (Responded /\ ~HasRequest) =>
        response.status = StatusBadRequest /\ ~response.review

\* C7 as stated: an object that is not valid JSON is answered 400 without an
\* admission response, whatever the kind and the operation.
C7_InvalidObjectRejectedAnyKind ==
    (Responded /\ HasRequest /\ request.object = InvalidRaw) =>
        response.status = StatusBadRequest /\ ~response.review

\* C7 as amended: for a request of the target kind, whatever its operation.
C7_InvalidObjectRejected ==
    (Responded /\ HasRequest /\ request.kind = "Kustomization"
        /\ request.object = InvalidRaw) =>
        response.status = StatusBadRequest /\ ~response.review

C7_Witness ==
    /\ Responded /\ HasRequest
    /\ request.kind = "Kustomization"
    /\ request.object = InvalidRaw
    /\ request.operation = "CREATE"
    /\ response.status = StatusBadRequest

\* C8: for a mutable request whose object has no map at spec.postBuild, the
\* first operation is the add of {} at /spec/postBuild and no later
\* operation has that path.
C8_PostBuildAddFirst ==
    (Responded /\ Mutable /\ ~HasMapAt(<<SPEC, POSTBUILD>>)) =>
        /\ Len(response.patch) >= 1
        /\ response.patch[1] = AddOp(PathPostBuild, EmptyObj)
        /\ \A i \in DOMAIN response.patch :
            i > 1 => response.patch[i].path # PathPostBuild

C8_Witness ==
    /\ Responded /\ Mutable
    /\ SPEC \notin DOMAIN request.object.m
    /\ DOMAIN appConfig # {}
    /\ Len(response.patch) = 2 + Cardinality(DOMAIN appConfig)

\* C9: for a mutable request, the add of {} at /spec/postBuild/substitute
\* is in the patch exactly when the object as sent has no map at
\* spec.postBuild.substitute, and it precedes every key-level operation.
C9_SubstituteAddIffAbsent ==
    (Responded /\ Mutable) =>
        /\ (\E i \in DOMAIN response.patch :
                response.patch[i] = AddOp(PathSubstitute, EmptyObj))
            <=> ~HasMapAt(<<SPEC, POSTBUILD, SUBSTITUTE>>)
        /\ \A i, j \in DOMAIN response.patch :
            (response.patch[i].path = PathSubstitute /\ IsKeyLevel(response.patch[j]))
                => i < j

C9_Witness ==
    /\ Responded /\ Mutable
    /\ HasMapAt(<<SPEC, POSTBUILD>>)
    /\ ~HasMapAt(<<SPEC, POSTBUILD, SUBSTITUTE>>)
    /\ DOMAIN appConfig # {}
    /\ response.patch[1] = AddOp(PathSubstitute, EmptyObj)

\* C10: an admission response has a patch exactly when it has the patch
\* type JSONPatch; a response built from an empty operation list has neither.
C10_PatchIffPatchType ==
    response.review =>
        /\ (response.patch # <<>>) <=> (response.patchType = JSONPatch)
        /\ (response.patch = <<>>) <=> (response.patchType = NoPatchType)

C10_Witness ==
    /\ Responded /\ Mutable
    /\ DOMAIN appConfig = {}
    /\ HasMapAt(<<SPEC, POSTBUILD, SUBSTITUTE>>)
    /\ AllowedUnpatched

\* C11: every admission response handleMutate writes has allowed = true,
\* whether it comes from the kind filter, the deletion check or the patch
\* construction, with or without operations.
C11_AlwaysAllowed ==
    response.review => response.allowed

C11_Witness ==
    /\ Responded /\ HasRequest
    /\ request.kind = "Kustomization"
    /\ request.operation = "UPDATE"
    /\ IsObj(request.object)
    /\ NestedString(request.object, <<METADATA, DELETIONTIMESTAMP>>) = TS_NONZERO
    /\ response.review /\ response.allowed
    /\ response.patch = <<>>

\* the object of the request with the returned patch applied
Patched == ApplyPatch(request.object, response.patch)

\* the members of a JSON object other than k
Without(v, k) == [x \in (DOMAIN v.m) \ {k} |-> v.m[x]]

\* the members of the map at fields in doc, none if no map is there
MembersAt(doc, fields) ==
    LET r == NestedFieldNoCopy(doc, fields)
    IN  IF r.found /\ r.val.t = "object" THEN r.val.m ELSE <<>>

\* C17: for a mutable request whose object has a map at spec, the patch
\* applies operation by operation without a missing parent; afterwards
\* spec.postBuild.substitute holds every entry of the substitution map,
\* keeps the entries it had under other keys and holds nothing else, and
\* every member that is not on the path spec, postBuild, substitute is as
\* it was.
C17_PatchAppliesAndFrames ==
    (Responded /\ Mutable /\ HasMapAt(<<SPEC>>)) =>
        /\ Patched.ok
        /\ LET old == request.object
               new == Patched.doc
               path == <<SPEC, POSTBUILD, SUBSTITUTE>>
               oldSub == MembersAt(old, path)
               newSub == MembersAt(new, path)
           IN  /\ NestedFieldNoCopy(new, path).found
               /\ NestedFieldNoCopy(new, path).val.t = "object"
               /\ DOMAIN newSub = (DOMAIN appConfig) \cup (DOMAIN oldSub)
               /\ \A k \in DOMAIN appConfig : newSub[k] = Str(appConfig[k])
               /\ \A k \in (DOMAIN oldSub) \ (DOMAIN appConfig) : newSub[k] = oldSub[k]
               /\ Without(new, SPEC) = Without(old, SPEC)
               /\ Without(new.m[SPEC], POSTBUILD) = Without(old.m[SPEC], POSTBUILD)
               /\ Without(new.m[SPEC].m[POSTBUILD], SUBSTITUTE)
                    = [k \in (DOMAIN MembersAt(old, <<SPEC, POSTBUILD>>)) \ {SUBSTITUTE}
                         |-> MembersAt(old, <<SPEC, POSTBUILD>>)[k]]

C17_Witness ==
    /\ Responded /\ Mutable
    /\ <<"1">> \in DOMAIN MembersAt(request.object, <<SPEC, POSTBUILD, SUBSTITUTE>>)
    /\ DOMAIN appConfig = {<<"/">>, <<"~", "1">>}
    /\ Patched.ok
    /\ DOMAIN MembersAt(Patched.doc, <<SPEC, POSTBUILD, SUBSTITUTE>>)
         = {<<"1">>, <<"/">>, <<"~", "1">>}
    /\ <<"interval">> \in DOMAIN Patched.doc.m[SPEC].m

----------------------------------------------------------------------------
(* escapeJsonPointer by itself *)

\* the alphabet: the two characters that are escaped, the two digits the
\* escapes are written with, and two ordinary characters
EscChars == {"~", "/", "0", "1", "a", "b"}

EscKeys == UNION {[1..n -> EscChars] : n \in 0..MaxEscLen}

InitEscape ==
    /\ InitWith(MaxRateLimit, "pair-1")
    /\ esc \in {[key |-> k, out |-> <<>>, done |-> FALSE] : k \in EscKeys}

\* escapeJsonPointer(key) is evaluated (main.go:250)
Escape ==
    /\ ~esc.done
    /\ esc' = [esc EXCEPT !.out = escapeJsonPointer(esc.key), !.done = TRUE]
    /\ UNCHANGED <<pc, appConfig, mutateVars, startup, certVars, serverVars, workers>>

NextEscape ==
    \/ Escape

SpecEscape == InitEscape /\ [][NextEscape]_vars

\* RFC 6901 section 3, one character at a time: "~" is written "~0", "/" is
\* written "~1", every other character stands for itself
RECURSIVE RFC6901Escape(_)
RFC6901Escape(s) ==
    IF s = <<>> THEN <<>>
    ELSE (CASE Head(s) = "~" -> <<"~", "0">>
            [] Head(s) = "/" -> <<"~", "1">>
            [] OTHER -> <<Head(s)>>) \o RFC6901Escape(Tail(s))

\* C12: on every string over "~", "/", "0", "1" and ordinary characters,
\* escapeJsonPointer returns the RFC 6901 escaping of the string; the result
\* holds no "/", each "~" in it is followed by "0" or "1", it decodes back to
\* the string, and a/b becomes a~1b.
C12_EscapeIsRFC6901 ==
    esc.done =>
        /\ esc.out = RFC6901Escape(esc.key)
        /\ \A i \in DOMAIN esc.out : esc.out[i] # "/"
        /\ \A i \in DOMAIN esc.out :
             esc.out[i] = "~" => i < Len(esc.out) /\ esc.out[i + 1] \in {"0", "1"}
        /\ Unescape(esc.out) = esc.key
        /\ esc.key = <<"a", "/", "b">> => esc.out = <<"a", "~", "1", "b">>

C12_Witness ==
    /\ esc.done
    /\ esc.key = <<"~", "/", "1">>
    /\ esc.out = <<"~", "0", "~", "1", "1">>

----------------------------------------------------------------------------
(* The server behind its middleware (main.go:349-379) *)

InitServer ==
    /\ \E rl \in 0..MaxRateLimit, d \in DiskStates : InitWith(rl, d)
    /\ esc = NoEsc

\* a request reaches the router; the guard on the count of admitted requests
\* only keeps the count finite
Arrive ==
    /\ pc = "serving"
    /\ conn = NoConn
    /\ limiter.admitted <= MaxRateLimit
    /\ \E route \in Routes :
        conn' = [route |-> route, stage |-> "arrived", status |-> 0, handler |-> ""]
    /\ UNCHANGED <<pc, appConfig, mutateVars, startup, certVars, limiter, workers, esc>>

\* limiter.Allow() (main.go:306): a token is there and is taken, or the
\* answer is no and the bucket is left as it is
Allow_Free(lim) == [ok |-> TRUE, lim |-> lim]

Allow(lim) ==
    IF lim.tokens >= 1
    THEN [ok |-> TRUE, lim |-> [lim EXCEPT !.tokens = lim.tokens - 1]]
    ELSE [ok |-> FALSE, lim |-> lim]

\* the handler rateLimitMiddleware returns (main.go:305-311)
RateLimitMiddleware ==
    /\ conn.stage = "arrived"
    /\ LET a == Allow(limiter) IN
        IF ~a.ok
        THEN /\ conn' = [conn EXCEPT !.stage = "done", !.status = StatusTooManyRequests]
             /\ limiter' = a.lim
        ELSE /\ conn' = [conn EXCEPT !.stage = "passed"]
             /\ limiter' = [a.lim EXCEPT !.admitted = limiter.admitted + 1]
    /\ UNCHANGED <<pc, appConfig, mutateVars, startup, certVars, workers, esc>>

\* time passes and the bucket fills at RATE_LIMIT tokens a second, up to the
\* burst, which is RATE_LIMIT too (main.go:357)
Refill ==
    /\ pc = "serving"
    /\ limiter.limit > 0
    /\ \E n \in 1..limiter.limit :
        limiter' = [limiter EXCEPT
                      !.tokens = IF limiter.tokens + n > limiter.limit
                                 THEN limiter.limit ELSE limiter.tokens + n,
                      !.admitted = 0]
    /\ UNCHANGED <<pc, appConfig, mutateVars, startup, certVars, conn, workers, esc>>

\* POST /mutate is routed to handleMutate (main.go:360)
ServeMutate ==
    /\ conn.stage = "passed"
    /\ conn.route = "/mutate"
    /\ \E body \in Bodies, order \in Orders(DOMAIN appConfig) :
        conn' = [conn EXCEPT !.stage = "done", !.handler = "handleMutate",
                             !.status = handleMutate(body, appConfig, order).status]
    /\ startup' = [startup EXCEPT !.handled = TRUE]
    /\ UNCHANGED <<pc, appConfig, mutateVars, certVars, limiter, workers, esc>>

\* handleHealth (main.go:288)
handleHealth == StatusOK

\* GET /health is routed to handleHealth (main.go:361)
ServeHealth ==
    /\ conn.stage = "passed"
    /\ conn.route = "/health"
    /\ conn' = [conn EXCEPT !.stage = "done", !.handler = "handleHealth",
                            !.status = handleHealth]
    /\ startup' = [startup EXCEPT !.handled = TRUE]
    /\ UNCHANGED <<pc, appConfig, mutateVars, certVars, limiter, workers, esc>>

\* handleReady (main.go:293)
handleReady_Always(config) == StatusOK

handleReady(config) ==
    IF Cardinality(DOMAIN config) = 0 THEN StatusServiceUnavailable ELSE StatusOK

\* GET /ready is routed to handleReady (main.go:362)
ServeReady ==
    /\ conn.stage = "passed"
    /\ conn.route = "/ready"
    /\ conn' = [conn EXCEPT !.stage = "done", !.handler = "handleReady",
                            !.status = handleReady(appConfig)]
    /\ startup' = [startup EXCEPT !.handled = TRUE]
    /\ UNCHANGED <<pc, appConfig, mutateVars, certVars, limiter, workers, esc>>

\* the response has been written and the exchange is over
Finish ==
    /\ conn.stage = "done"
    /\ conn' = NoConn
    /\ UNCHANGED <<pc, appConfig, mutateVars, startup, certVars, limiter, workers, esc>>

NextServer ==
    \/ MainReadConfig
    \/ MainNewCertWatcher
    \/ MainStartServer
    \/ Arrive
    \/ RateLimitMiddleware
    \/ Refill
    \/ ServeMutate
    \/ ServeHealth
    \/ ServeReady
    \/ Finish

SpecServer == InitServer /\ [][NextServer]_vars

\* C13 as stated: the readiness probe answers 200 after every startup in
\* which the source was readable, an empty source included.
C13_ReadyAfterReadableStartup ==
    (conn.handler = "handleReady" /\ startup.configErr \in {"none", "notfound"})
        => conn.status = StatusOK

\* C13: the readiness probe answers 200 exactly when the substitution map
\* holds an entry, that is after a startup whose load returned no error, and
\* 503 after a startup that found no entries and went on in degraded mode.
C13_ReadyIffEntries ==
    conn.handler = "handleReady" =>
        /\ conn.status \in {StatusOK, StatusServiceUnavailable}
        /\ conn.status = StatusOK <=> DOMAIN appConfig # {}
        /\ conn.status = StatusOK <=> startup.configErr = "none"
        /\ conn.status = StatusServiceUnavailable <=> startup.configErr = "notfound"

C13_Witness ==
    /\ conn.handler = "handleReady"
    /\ startup.configErr = "notfound"
    /\ conn.status = StatusServiceUnavailable

\* startup is over
StartupOver == pc \in {"serving", "exited"}

\* the certificate and key files hold a pair that loads
CertLoads == ~LoadX509KeyPair(disk).err

\* C14 as stated: startup reaches the serving state if and only if the
\* source directory is readable and the initial certificate pair loads.
C14_ServingIffReadableAndCert ==
    StartupOver =>
        (pc = "serving" <=> (startup.configErr # "readdir" /\ CertLoads))

\* C14: startup reaches the serving state if and only if readConfigMap
\* returns no error other than errConfigNotFound (the directory and every
\* file it reads are readable), the file watcher is created, the initial
\* certificate pair loads and the server can listen; a readable source with
\* no entries leaves an empty map, and an exit comes before any request is
\* handled.
C14_ServingIffStartupSucceeds ==
    StartupOver =>
        /\ pc = "serving" <=> /\ startup.configErr \in {"none", "notfound"}
                              /\ startup.certErr = "none"
                              /\ ~startup.listenErr
        /\ startup.configErr \in {"readdir", "readfile"} => pc = "exited"
        /\ startup.configErr \in {"readdir", "readfile", "notfound"} => appConfig = <<>>
        /\ ~CertLoads => pc = "exited"
        /\ startup.certErr = "none" => CertLoads /\ cw.cert = disk
        /\ pc = "exited" => ~startup.handled /\ conn = NoConn

C14_Witness ==
    /\ pc = "serving"
    /\ startup.configErr = "notfound"
    /\ appConfig = <<>>
    /\ startup.handled

\* what the bucket guarantees in every state
C16_Bucket ==
    /\ limiter.tokens \in 0..limiter.limit
    /\ limiter.admitted + limiter.tokens <= limiter.limit
    /\ conn.status = StatusTooManyRequests => conn.stage = "done" /\ conn.handler = ""
    /\ conn.handler # "" => conn.status # StatusTooManyRequests

\* what every step of a request through the middleware does
C16_Step ==
    /\ (conn.stage = "arrived" /\ conn' # conn /\ limiter.tokens = 0) =>
          /\ conn' = [conn EXCEPT !.stage = "done", !.status = StatusTooManyRequests]
          /\ limiter' = limiter
    /\ (conn.stage = "arrived" /\ conn'.stage = "passed") =>
          /\ limiter.tokens >= 1
          /\ limiter'.tokens = limiter.tokens - 1
          /\ limiter'.admitted = limiter.admitted + 1
    /\ (conn.stage = "arrived" /\ conn' # conn) => conn'.handler = ""
    /\ (conn.handler = "" /\ conn'.handler # "") => conn.stage = "passed"

\* C16: a request that finds the bucket (capacity and refill both
\* RATE_LIMIT) empty is answered 429 at once, reaches none of handleMutate,
\* handleHealth and handleReady and is not kept; a request let through takes
\* exactly one token, so no more than the burst reach the handlers between
\* two refills.
C16_RateLimited == [](C16_Bucket) /\ [][C16_Step]_vars

C16_Witness ==
    /\ conn.stage = "done"
    /\ conn.status = StatusTooManyRequests
    /\ conn.handler = ""
    /\ limiter.limit = MaxRateLimit
    /\ limiter.admitted = limiter.limit
    /\ limiter.tokens = 0

----------------------------------------------------------------------------
(* Requests handled concurrently (one goroutine per request) *)

Workers == {"w1", "w2"}

Idle == [body |-> NoBody, response |-> NoResponse]

\* the requests that are sent again and again
ReplayBodies ==
    {MalformedBody, NoRequestBody}
    \cup {Review("uid-1", "Kustomization", "CREATE", MakeObject("Kustomization", NoMeta, sp)) :
            sp \in StampedSpecVariants}
    \cup {Review("uid-1", "Kustomization", "DELETE", MakeObject("Kustomization", NoMeta, sp)) :
            sp \in StampedSpecVariants}
    \cup {Review("uid-2", "ConfigMap", "UPDATE", InvalidRaw)}

InitReplay ==
    /\ InitWith(MaxRateLimit, "pair-1")
    /\ esc = NoEsc

\* the server has started and the goroutines are idle
ReplayStart ==
    /\ pc = "serving"
    /\ workers = <<>>
    /\ workers' = [w \in Workers |-> Idle]
    /\ UNCHANGED <<pc, appConfig, mutateVars, startup, certVars, serverVars, esc>>

\* net/http hands a POST /mutate to a goroutine
WorkerReceive(w) ==
    /\ pc = "serving"
    /\ w \in DOMAIN workers
    /\ workers[w] = Idle
    /\ \E body \in ReplayBodies :
        workers' = [workers EXCEPT ![w] = [body |-> body, response |-> NoResponse]]
    /\ UNCHANGED <<pc, appConfig, mutateVars, startup, certVars, serverVars, esc>>

\* the goroutine runs handleMutate; the map is only read (main.go:248)
WorkerHandle(w) ==
    /\ w \in DOMAIN workers
    /\ workers[w].body # NoBody
    /\ workers[w].response = NoResponse
    /\ \E order \in Orders(DOMAIN appConfig) :
        workers' = [workers EXCEPT
                      ![w].response = handleMutate(workers[w].body, appConfig, order)]
    /\ UNCHANGED <<pc, appConfig, mutateVars, startup, certVars, serverVars, esc>>

\* the response is written and the goroutine is free again
WorkerReturn(w) ==
    /\ w \in DOMAIN workers
    /\ workers[w].response # NoResponse
    /\ workers' = [workers EXCEPT ![w] = Idle]
    /\ UNCHANGED <<pc, appConfig, mutateVars, startup, certVars, serverVars, esc>>

NextReplay ==
    \/ MainReadConfig
    \/ MainNewCertWatcher
    \/ MainStartServer
    \/ ReplayStart
    \/ \E w \in Workers : WorkerReceive(w)
    \/ \E w \in Workers : WorkerHandle(w)
    \/ \E w \in Workers : WorkerReturn(w)

SpecReplay == InitReplay /\ [][NextReplay]_vars

\* the operations of a patch as a set
OpSet(patch) == {patch[i] : i \in DOMAIN patch}

\* the operations of a patch that are not key-level, in their order
RECURSIVE ContainerPart(_)
ContainerPart(patch) ==
    IF patch = <<>> THEN <<>>
    ELSE (IF IsKeyLevel(Head(patch)) THEN <<>> ELSE <<Head(patch)>>)
         \o ContainerPart(Tail(patch))

\* two responses that differ at most in the order of key-level operations
SameResponse(r1, r2) ==
    /\ r1.status = r2.status
    /\ r1.review = r2.review
    /\ r1.uid = r2.uid
    /\ r1.allowed = r2.allowed
    /\ r1.patchType = r2.patchType
    /\ Len(r1.patch) = Len(r2.patch)
    /\ OpSet(r1.patch) = OpSet(r2.patch)
    /\ ContainerPart(r1.patch) = ContainerPart(r2.patch)

\* a response held by one goroutine and the response to the same request
\* handled by another, before, meanwhile or afterwards
C15_SameOps ==
    \A v, w \in DOMAIN workers :
        (/\ workers[v].response # NoResponse
         /\ workers[w].response # NoResponse
         /\ workers[v].body = workers[w].body)
            => SameResponse(workers[v].response, workers[w].response)

\* once the server runs no step changes the substitution map
C15_MapFrozen == pc = "serving" => appConfig' = appConfig

\* C15: the response depends only on the request and the substitution map:
\* handling never modifies the map, and however requests interleave, the
\* same request gets a patch with the same operations (same paths and
\* values), the key-level ones in any order.
C15_ReplaySameOps == [](C15_SameOps) /\ [][C15_MapFrozen]_vars

C15_Witness ==
    /\ DOMAIN workers = Workers
    /\ workers["w1"].body = workers["w2"].body
    /\ workers["w1"].response # NoResponse
    /\ workers["w2"].response # NoResponse
    /\ Len(workers["w1"].response.patch) = 4
    /\ workers["w1"].response.patch # workers["w2"].response.patch

----------------------------------------------------------------------------
(* The certificate watcher and the TLS handshakes (main.go:72-124) *)

\* main is about to create the CertWatcher (main.go:338), having found no
\* entries in the source; the files hold any of the pairs
InitCert ==
    /\ pc = "config"
    /\ appConfig = <<>>
    /\ request = NoBody
    /\ response = NoResponse
    /\ reinvoked = FALSE
    /\ startup = [NoStartup EXCEPT !.configErr = "notfound"]
    /\ disk \in DiskStates
    /\ cw = NoWatcher
    /\ watch = WatchIdle
    /\ hs = HsIdle
    /\ lastGood = NoCert
    /\ limiter = [limit |-> MaxRateLimit, tokens |-> 0, admitted |-> 0]
    /\ conn = NoConn
    /\ workers = <<>>
    /\ esc = NoEsc

\* the CertWatcher exists
Watching == pc \in {"certs", "serving", "stopping"}

\* the files change (or not) and the file watcher queues an event
FsEvent ==
    /\ Watching
    /\ watch.pc # "starting"
    /\ ~cw.done
    /\ Len(cw.events) < MaxEvents
    /\ \E d \in DiskStates, op \in EventOps :
        /\ disk' = d
        /\ cw' = [cw EXCEPT !.events = Append(cw.events, op)]
    /\ UNCHANGED <<pc, appConfig, mutateVars, startup, watch, hs, lastGood, serverVars, workers, esc>>

\* cw.watcher.Add (main.go:90): the directory is watched, or Watch returns
WatchAdd ==
    /\ watch.pc = "starting"
    /\ \E ok \in BOOLEAN :
        watch' = [watch EXCEPT !.pc = IF ok THEN "select" ELSE "returned"]
    /\ UNCHANGED <<pc, appConfig, mutateVars, startup, disk, cw, hs, lastGood, serverVars, workers, esc>>

\* event.Op&fsnotify.Remove == fsnotify.Remove (main.go:102)
TriggersReload_Any(op) == TRUE

TriggersReload(op) == "Remove" \in op

\* an event is received (main.go:96-102); only one that carries Remove
\* starts a reload
WatchEvent ==
    /\ watch.pc = "select"
    /\ cw.events # <<>>
    /\ cw' = [cw EXCEPT !.events = Tail(cw.events)]
    /\ watch' = IF TriggersReload(Head(cw.events))
                THEN [watch EXCEPT !.pc = "load", !.op = Head(cw.events)]
                ELSE watch
    /\ UNCHANGED <<pc, appConfig, mutateVars, startup, disk, hs, lastGood, serverVars, workers, esc>>

\* loadCertificate reads the pair (main.go:73-76); a failure is logged and
\* the loop goes on (main.go:104-105)
WatchLoad ==
    /\ watch.pc = "load"
    /\ LET r == LoadX509KeyPair(disk) IN
        watch' = IF r.err THEN [watch EXCEPT !.pc = "select", !.op = {}]
                 ELSE [watch EXCEPT !.pc = "lock", !.loaded = r.cert]
    /\ UNCHANGED <<pc, appConfig, mutateVars, startup, disk, cw, hs, lastGood, serverVars, workers, esc>>

\* cw.mu.Lock() (main.go:77)
WatchLock ==
    /\ watch.pc = "lock"
    /\ ~cw.writer
    /\ cw.readers = 0
    /\ cw' = [cw EXCEPT !.writer = TRUE]
    /\ watch' = [watch EXCEPT !.pc = "store"]
    /\ UNCHANGED <<pc, appConfig, mutateVars, startup, disk, hs, lastGood, serverVars, workers, esc>>

\* cw.cert = &cert (main.go:78)
WatchStore ==
    /\ watch.pc = "store"
    /\ cw' = [cw EXCEPT !.cert = watch.loaded]
    /\ lastGood' = watch.loaded
    /\ watch' = [watch EXCEPT !.pc = "unlock"]
    /\ UNCHANGED <<pc, appConfig, mutateVars, startup, disk, hs, serverVars, workers, esc>>

\* cw.mu.Unlock() and back to the select (main.go:79-80, 106-108)
WatchUnlock ==
    /\ watch.pc = "unlock"
    /\ cw' = [cw EXCEPT !.writer = FALSE]
    /\ watch' = [watch EXCEPT !.pc = "select", !.op = {}, !.loaded = NoCert]
    /\ UNCHANGED <<pc, appConfig, mutateVars, startup, disk, hs, lastGood, serverVars, workers, esc>>

\* certWatcher.Stop() on shutdown (main.go:390, 121-124)
Stop ==
    /\ pc = "serving"
    /\ pc' = "stopping"
    /\ cw' = [cw EXCEPT !.done = TRUE, !.events = <<>>]
    /\ UNCHANGED <<appConfig, mutateVars, startup, disk, watch, hs, lastGood, serverVars, workers, esc>>

\* the select finds done or the event channels closed (main.go:97-98,
\* 111-112, 115-116)
WatchReturn ==
    /\ watch.pc = "select"
    /\ cw.done
    /\ watch' = [watch EXCEPT !.pc = "returned"]
    /\ UNCHANGED <<pc, appConfig, mutateVars, startup, disk, cw, hs, lastGood, serverVars, workers, esc>>

\* a handshake calls GetCertificate: cw.mu.RLock() (main.go:84)
HsRLock ==
    /\ pc \in {"serving", "stopping"}
    /\ hs.pc = "idle"
    /\ ~cw.writer
    /\ cw' = [cw EXCEPT !.readers = cw.readers + 1]
    /\ hs' = [hs EXCEPT !.pc = "rlocked"]
    /\ UNCHANGED <<pc, appConfig, mutateVars, startup, disk, watch, lastGood, serverVars, workers, esc>>

\* return cw.cert, nil (main.go:86): the result is read
HsRead ==
    /\ hs.pc = "rlocked"
    /\ hs' = [hs EXCEPT !.pc = "read", !.result = cw.cert]
    /\ UNCHANGED <<pc, appConfig, mutateVars, startup, disk, cw, watch, lastGood, serverVars, workers, esc>>

\* the deferred cw.mu.RUnlock() (main.go:85)
HsRUnlock ==
    /\ hs.pc = "read"
    /\ cw' = [cw EXCEPT !.readers = cw.readers - 1]
    /\ hs' = [hs EXCEPT !.pc = "returned"]
    /\ UNCHANGED <<pc, appConfig, mutateVars, startup, disk, watch, lastGood, serverVars, workers, esc>>

\* the handshake is over
HsFinish ==
    /\ hs.pc = "returned"
    /\ hs' = HsIdle
    /\ UNCHANGED <<pc, appConfig, mutateVars, startup, disk, cw, watch, lastGood, serverVars, workers, esc>>

NextCert ==
    \/ MainNewCertWatcher
    \/ MainStartServer
    \/ FsEvent
    \/ WatchAdd
    \/ WatchEvent
    \/ WatchLoad
    \/ WatchLock
    \/ WatchStore
    \/ WatchUnlock
    \/ Stop
    \/ WatchReturn
    \/ HsRLock
    \/ HsRead
    \/ HsRUnlock
    \/ HsFinish

SpecCert == InitCert /\ [][NextCert]_vars

\* what GetCertificate returns, and what the watcher holds
C18_Served ==
    /\ hs.pc \in {"read", "returned"} => hs.result \in Certs
    /\ hs.pc = "read" => hs.result = lastGood
    /\ Watching => cw.cert \in Certs /\ cw.cert = lastGood

\* what a step of the watcher may do to the served certificate
C18_Step ==
    /\ cw'.cert # cw.cert =>
          \/ pc = "config"
          \/ /\ watch.pc = "store"
             /\ "Remove" \in watch.op
             /\ watch.loaded \in Certs
             /\ cw'.cert = watch.loaded
    /\ (watch.pc = "select" /\ watch'.pc = "load") =>
          /\ cw.events # <<>>
          /\ "Remove" \in Head(cw.events)
    /\ (watch.pc = "select" /\ cw.events # <<>> /\ ~cw'.done
            /\ cw'.events = Tail(cw.events)) =>
          /\ watch'.pc = IF "Remove" \in Head(cw.events) THEN "load" ELSE "select"
          /\ cw'.cert = cw.cert
    /\ (watch.pc = "load" /\ watch' # watch /\ LoadX509KeyPair(disk).err) =>
          /\ watch'.pc = "select"
          /\ cw' = cw
          /\ lastGood' = lastGood

\* C18: however the watcher and the handshakes interleave, GetCertificate
\* returns a certificate that is not nil and is the one the most recent
\* successful load stored; the served certificate changes only when an event
\* carrying Remove starts a reload that succeeds, other events start no
\* reload, and a failed reload leaves the certificate in place and the loop
\* at its select.
C18_ServedCertificate == [](C18_Served) /\ [][C18_Step]_vars

C18_Witness ==
    /\ hs.pc = "read"
    /\ watch.pc = "lock"
    /\ "Remove" \in watch.op
    /\ watch.loaded \in Certs
    /\ hs.result # watch.loaded
    /\ hs.result = lastGood

====
